---------------------------- MODULE Spec2Model ----------------------------
(***************************************************************************)
(* A model of lib/SILOptimizer/Mandatory/TFDeviceSupport.h: the device     *)
(* catalog (DeviceType and its string conversions), the device usage       *)
(* tracker (GraphFunctionDeviceInfo with its DeviceTypeMgr iterator) and   *)
(* the device partitioner (DevicePartitioner, whose implementation is not  *)
(* part of the header and is modelled from the design document).           *)
(*                                                                         *)
(* assert() and llvm_unreachable() are modelled as they behave in a build  *)
(* with assertions enabled: the failing call aborts the process (pc goes   *)
(* to "fatal" and no further step is taken).                               *)
(***************************************************************************)
EXTENDS Integers, Sequences, FiniteSets

VARIABLES
    pc,                   \* "run", or "fatal" once an assertion has aborted the process
    lastCall,             \* the last call made: [op, arg]
    ret,                  \* what the last catalog call returned
    device,               \* catalog: the device string at hand
    deviceType,           \* catalog: the DeviceType at hand
    origin,               \* catalog: the kind `device` was produced from by getDeviceString, if any
    primaryDeviceType,    \* GraphFunctionDeviceInfo::primaryDeviceType
    usedDeviceTypes,      \* GraphFunctionDeviceInfo::usedDeviceTypes, bool[NUM_DEVICE_TYPES]
    numUsedDeviceTypes,   \* GraphFunctionDeviceInfo::numUsedDeviceTypes
    marked,               \* history: the kinds passed to markDeviceUsed calls that returned
    before,               \* history: usedDeviceTypes and numUsedDeviceTypes before the last call
    loop,                 \* position of a range-for over getUsedDeviceTypes(): "none", "head", "body", "end"
    deviceIdx,            \* iterator::deviceIdx of that loop's iterator
    visited,              \* the kinds the loop has dereferenced so far
    dirty,                \* a markDeviceUsed call returned since the loop began
    nextTensorTransferId, \* the counter shared by all DevicePartitioner sessions
    session,              \* "idle" or "active": a DevicePartitioner exists
    srcFn,                \* the operations of srcFn traversed so far: [device, operands]
    subgraphs,            \* per used device, the operations of its extracted function
    startId,              \* history: nextTensorTransferId when the session began
    retiredIds            \* history: the TransferIds of the sends of earlier sessions

catVars == <<ret, device, deviceType, origin>>
infoVars == <<primaryDeviceType, usedDeviceTypes, numUsedDeviceTypes>>
loopVars == <<loop, deviceIdx, visited, dirty>>
histVars == <<marked, before>>
partVars == <<nextTensorTransferId, session, srcFn, subgraphs, startId, retiredIds>>
vars == <<pc, lastCall, catVars, infoVars, histVars, loopVars, partVars>>

(***************************************************************************)
(* enum class DeviceType and the catalog's constants                       *)
(***************************************************************************)
INVALID == 0
CPU == 1
GPU == 2
TPU == 3
ALL == 4
NUM_DEVICE_TYPES == 5

DeviceType == {INVALID, CPU, GPU, TPU, ALL}
ValidKinds == {CPU, GPU, TPU, ALL}

DEFAULT_CPU_DEVICE == "/device:CPU:0"
DEFAULT_GPU_DEVICE == "/device:GPU:0"
DEFAULT_TPU_DEVICE == "TPU_SYSTEM"
ALL_DEVICES == "ALL_DEVICES"

\* A function's outcome: it returns v, or it aborts in llvm_unreachable.
Return(v) == [fatal |-> FALSE, value |-> <<v>>]
llvm_unreachable == [fatal |-> TRUE, value |-> <<>>]

getOpDeviceTypeCoercing(dev) ==
    IF dev = DEFAULT_CPU_DEVICE THEN Return(CPU)
    ELSE IF dev = DEFAULT_GPU_DEVICE THEN Return(GPU)
    ELSE IF dev = DEFAULT_TPU_DEVICE THEN Return(TPU)
    ELSE IF dev = ALL_DEVICES THEN Return(ALL)
    ELSE Return(CPU)

getOpDeviceTypeSwapped(dev) ==
    IF dev = DEFAULT_CPU_DEVICE THEN Return(CPU)
    ELSE IF dev = DEFAULT_GPU_DEVICE THEN Return(TPU)
    ELSE IF dev = DEFAULT_TPU_DEVICE THEN Return(GPU)
    ELSE IF dev = ALL_DEVICES THEN Return(ALL)
    ELSE llvm_unreachable

getOpDeviceType(dev) ==
    IF dev = DEFAULT_CPU_DEVICE THEN Return(CPU)
    ELSE IF dev = DEFAULT_GPU_DEVICE THEN Return(GPU)
    ELSE IF dev = DEFAULT_TPU_DEVICE THEN Return(TPU)
    ELSE IF dev = ALL_DEVICES THEN Return(ALL)
    ELSE llvm_unreachable

getDeviceString(type) ==
    CASE type = CPU -> Return(DEFAULT_CPU_DEVICE)
      [] type = GPU -> Return(DEFAULT_GPU_DEVICE)
      [] type = TPU -> Return(DEFAULT_TPU_DEVICE)
      [] type = ALL -> Return(ALL_DEVICES)
      [] type = INVALID -> llvm_unreachable

getDeviceShortName(type) ==
    CASE type = CPU -> Return("CPU")
      [] type = GPU -> Return("GPU")
      [] type = TPU -> Return("TPU")
      [] type = ALL -> Return("ALL")
      [] type = INVALID -> llvm_unreachable

(***************************************************************************)
(* struct GraphFunctionDeviceInfo                                          *)
(***************************************************************************)
DeviceIndex == 0 .. (NUM_DEVICE_TYPES - 1)

\* The constructor: assert(primaryDeviceType != ALL), memset, mark the primary.
GraphFunctionDeviceInfo(primary) ==
    IF primary = ALL
    THEN [fatal |-> TRUE,
          usedDeviceTypes |-> [i \in DeviceIndex |-> FALSE],
          numUsedDeviceTypes |-> 0]
    ELSE [fatal |-> FALSE,
          usedDeviceTypes |-> [i \in DeviceIndex |-> i = primary],
          numUsedDeviceTypes |-> 1]

markDeviceUsedUnasserted(used, num, dev) ==
    IF dev = ALL \/ used[dev]
    THEN [fatal |-> FALSE, usedDeviceTypes |-> used, numUsedDeviceTypes |-> num]
    ELSE [fatal |-> FALSE,
          usedDeviceTypes |-> [used EXCEPT ![dev] = TRUE],
          numUsedDeviceTypes |-> num + 1]

markDeviceUsedRecounting(used, num, dev) ==
    IF dev = INVALID
    THEN [fatal |-> TRUE, usedDeviceTypes |-> used, numUsedDeviceTypes |-> num]
    ELSE IF dev = ALL
    THEN [fatal |-> FALSE, usedDeviceTypes |-> used, numUsedDeviceTypes |-> num]
    ELSE [fatal |-> FALSE,
          usedDeviceTypes |-> [used EXCEPT ![dev] = TRUE],
          numUsedDeviceTypes |-> num + 1]

markDeviceUsedUncounted(used, num, dev) ==
    IF dev = INVALID
    THEN [fatal |-> TRUE, usedDeviceTypes |-> used, numUsedDeviceTypes |-> num]
    ELSE IF dev = ALL \/ used[dev]
    THEN [fatal |-> FALSE, usedDeviceTypes |-> used, numUsedDeviceTypes |-> num]
    ELSE [fatal |-> FALSE,
          usedDeviceTypes |-> [used EXCEPT ![dev] = TRUE],
          numUsedDeviceTypes |-> num]

\* markDeviceUsed(device) on the tracker (used, num).
markDeviceUsed(used, num, dev) ==
    IF dev = INVALID
    THEN [fatal |-> TRUE, usedDeviceTypes |-> used, numUsedDeviceTypes |-> num]
    ELSE IF dev = ALL \/ used[dev]
    THEN [fatal |-> FALSE, usedDeviceTypes |-> used, numUsedDeviceTypes |-> num]
    ELSE [fatal |-> FALSE,
          usedDeviceTypes |-> [used EXCEPT ![dev] = TRUE],
          numUsedDeviceTypes |-> num + 1]

(***************************************************************************)
(* DeviceTypeMgr::iterator                                                 *)
(***************************************************************************)
RECURSIVE iteratorIncrement(_, _)
\* operator++(): advance to the next set entry, or to NUM_DEVICE_TYPES; the two
\* asserts abort when the entry found is INVALID's or ALL's.
iteratorIncrement(used, idx) ==
    LET next == idx + 1
    IN  IF next < NUM_DEVICE_TYPES
        THEN IF ~used[next]
             THEN iteratorIncrement(used, next)
             ELSE [fatal |-> next = INVALID \/ next = ALL, deviceIdx |-> next]
        ELSE [fatal |-> FALSE, deviceIdx |-> next]

beginUnadvanced(used) == [fatal |-> FALSE, deviceIdx |-> 0]

\* begin(): iterator(usedDeviceTypes, 0), then ++.
begin(used) == iteratorIncrement(used, 0)

\* end(): iterator(usedDeviceTypes, NUM_DEVICE_TYPES).
end == NUM_DEVICE_TYPES

\* operator*(): (DeviceType)deviceIdx.
iteratorDeref(idx) == idx

RECURSIVE collectFrom(_, _)
collectFrom(used, it) ==
    IF it.fatal \/ it.deviceIdx >= end
    THEN <<>>
    ELSE <<iteratorDeref(it.deviceIdx)>> \o collectFrom(used, iteratorIncrement(used, it.deviceIdx))

\* for (auto d : getUsedDeviceTypes()): the kinds the loop visits, in order.
getUsedDeviceTypes(used) == collectFrom(used, begin(used))

(***************************************************************************)
(* The values the variables of a component hold while another component    *)
(* is the one being run.                                                   *)
(***************************************************************************)
NoCall == [op |-> "none", arg |-> <<>>]
NoReturn == [fatal |-> FALSE, value |-> <<>>]
NoSnapshot == [usedDeviceTypes |-> [i \in DeviceIndex |-> FALSE], numUsedDeviceTypes |-> 0]

CatalogIdle ==
    /\ ret = NoReturn
    /\ device = ""
    /\ deviceType = INVALID
    /\ origin = <<>>

LoopIdle ==
    /\ loop = "none"
    /\ deviceIdx = 0
    /\ visited = <<>>
    /\ dirty = FALSE

PartitionerIdle ==
    /\ nextTensorTransferId = 0
    /\ session = "idle"
    /\ srcFn = <<>>
    /\ subgraphs = <<>>
    /\ startId = 0
    /\ retiredIds = {}

(***************************************************************************)
(* The catalog: the three conversions applied to inputs drawn in Init, the *)
(* result of one conversion being the next one's input.                    *)
(***************************************************************************)
DeviceStrings ==
    {DEFAULT_CPU_DEVICE, DEFAULT_GPU_DEVICE, DEFAULT_TPU_DEVICE, ALL_DEVICES,
     "", "CPU:0", "GPU:0", "CPU", "ALL", "/device:cpu:0", "/device:CPU:1",
     "/device:TPU:0", "/device:CPU:0 ", "INVALID"}

CatalogInit ==
    /\ pc = "run"
    /\ lastCall = NoCall
    /\ ret = NoReturn
    /\ device \in DeviceStrings
    /\ deviceType \in DeviceType
    /\ origin = <<>>
    /\ primaryDeviceType = INVALID
    /\ usedDeviceTypes = NoSnapshot.usedDeviceTypes
    /\ numUsedDeviceTypes = 0
    /\ marked = {}
    /\ before = NoSnapshot
    /\ LoopIdle
    /\ PartitionerIdle

\* device = getDeviceString(deviceType)
CallGetDeviceString ==
    /\ pc = "run"
    /\ LET r == getDeviceString(deviceType)
       IN  /\ ret' = r
           /\ lastCall' = [op |-> "getDeviceString", arg |-> <<deviceType>>]
           /\ pc' = IF r.fatal THEN "fatal" ELSE "run"
           /\ device' = IF r.fatal THEN device ELSE r.value[1]
           /\ origin' = IF r.fatal THEN origin ELSE <<deviceType>>
    /\ UNCHANGED <<deviceType, infoVars, histVars, loopVars, partVars>>

\* deviceType = getOpDeviceType(device)
CallGetOpDeviceType ==
    /\ pc = "run"
    /\ LET r == getOpDeviceType(device)
       IN  /\ ret' = r
           /\ lastCall' = [op |-> "getOpDeviceType", arg |-> <<device>>]
           /\ pc' = IF r.fatal THEN "fatal" ELSE "run"
           /\ deviceType' = IF r.fatal THEN deviceType ELSE r.value[1]
    /\ UNCHANGED <<device, origin, infoVars, histVars, loopVars, partVars>>

\* getDeviceShortName(deviceType)
CallGetDeviceShortName ==
    /\ pc = "run"
    /\ LET r == getDeviceShortName(deviceType)
       IN  /\ ret' = r
           /\ lastCall' = [op |-> "getDeviceShortName", arg |-> <<deviceType>>]
           /\ pc' = IF r.fatal THEN "fatal" ELSE "run"
    /\ UNCHANGED <<device, deviceType, origin, infoVars, histVars, loopVars, partVars>>

CatalogNext ==
    \/ CallGetDeviceString
    \/ CallGetOpDeviceType
    \/ CallGetDeviceShortName

CatalogSpec == CatalogInit /\ [][CatalogNext]_vars

(***************************************************************************)
(* The tracker: a GraphFunctionDeviceInfo after its constructor, then any  *)
(* markDeviceUsed calls and range-for loops over getUsedDeviceTypes().     *)
(***************************************************************************)
Init ==
    /\ pc = "run"
    /\ \E primary \in DeviceType :
          LET info == GraphFunctionDeviceInfo(primary)
          IN  /\ ~info.fatal
              /\ primaryDeviceType = primary
              /\ usedDeviceTypes = info.usedDeviceTypes
              /\ numUsedDeviceTypes = info.numUsedDeviceTypes
              /\ lastCall = [op |-> "GraphFunctionDeviceInfo", arg |-> <<primary>>]
    /\ marked = {}
    /\ before = NoSnapshot
    /\ CatalogIdle
    /\ LoopIdle
    /\ PartitionerIdle

MarkDeviceUsed(dev) ==
    /\ pc = "run"
    /\ LET r == markDeviceUsed(usedDeviceTypes, numUsedDeviceTypes, dev)
       IN  /\ usedDeviceTypes' = r.usedDeviceTypes
           /\ numUsedDeviceTypes' = r.numUsedDeviceTypes
           /\ pc' = IF r.fatal THEN "fatal" ELSE "run"
           /\ marked' = IF r.fatal THEN marked ELSE marked \cup {dev}
           /\ dirty' = (dirty \/ (~r.fatal /\ loop # "none"))
    /\ lastCall' = [op |-> "markDeviceUsed", arg |-> <<dev>>]
    /\ before' = [usedDeviceTypes |-> usedDeviceTypes, numUsedDeviceTypes |-> numUsedDeviceTypes]
    /\ UNCHANGED <<primaryDeviceType, loop, deviceIdx, visited, catVars, partVars>>

\* auto it = getUsedDeviceTypes().begin()
LoopBegin ==
    /\ pc = "run"
    /\ loop \in {"none", "end"}
    /\ LET it == begin(usedDeviceTypes)
       IN  /\ deviceIdx' = it.deviceIdx
           /\ pc' = IF it.fatal THEN "fatal" ELSE "run"
    /\ loop' = "head"
    /\ visited' = <<>>
    /\ dirty' = FALSE
    /\ UNCHANGED <<lastCall, infoVars, histVars, catVars, partVars>>

\* it != end(), then *it
LoopDeref ==
    /\ pc = "run"
    /\ loop = "head"
    /\ deviceIdx # end
    /\ visited' = Append(visited, iteratorDeref(deviceIdx))
    /\ loop' = "body"
    /\ UNCHANGED <<pc, lastCall, deviceIdx, dirty, infoVars, histVars, catVars, partVars>>

\* ++it
LoopIncrement ==
    /\ pc = "run"
    /\ loop = "body"
    /\ LET it == iteratorIncrement(usedDeviceTypes, deviceIdx)
       IN  /\ deviceIdx' = it.deviceIdx
           /\ pc' = IF it.fatal THEN "fatal" ELSE "run"
    /\ loop' = "head"
    /\ UNCHANGED <<lastCall, visited, dirty, infoVars, histVars, catVars, partVars>>

\* it == end(): the loop is left
LoopExit ==
    /\ pc = "run"
    /\ loop = "head"
    /\ deviceIdx = end
    /\ loop' = "end"
    /\ UNCHANGED <<pc, lastCall, deviceIdx, visited, dirty, infoVars, histVars, catVars, partVars>>

Next ==
    \/ \E dev \in DeviceType : MarkDeviceUsed(dev)
    \/ LoopBegin
    \/ LoopDeref
    \/ LoopIncrement
    \/ LoopExit

Spec == Init /\ [][Next]_vars

(***************************************************************************)
(* The partitioner. DevicePartitioner's implementation is not in the       *)
(* header; the traversal below follows section 4.3 of the design document. *)
(* A session builds the tracker of its source function (the constructor,   *)
(* then the markDeviceUsed calls of the placement step), creates one empty *)
(* subgraph per used device and visits the operations of srcFn in order.   *)
(* An operation is [device, operands], its operands being earlier          *)
(* operations; value i is the result of operation i.                       *)
(***************************************************************************)
MaxOps == 3
MaxTransferId == 2

RECURSIVE markAll(_, _)
\* The placement step: markDeviceUsed for every kind of `placed`.
markAll(info, placed) ==
    IF placed = {}
    THEN info
    ELSE LET dev == CHOOSE x \in placed : TRUE
         IN  markAll(markDeviceUsed(info.usedDeviceTypes, info.numUsedDeviceTypes, dev),
                     placed \ {dev})

SeqRange(seq) == {seq[i] : i \in 1 .. Len(seq)}

\* The devices an operation placed on `dev` is copied to.
Destinations(dev) ==
    IF dev = ALL THEN DOMAIN subgraphs ELSE {dev}

\* Value v is already in dev's subgraph: its operation was copied there, or a
\* receive of it was inserted there.
ValueExistsInIgnoringReceives(v, dev) ==
    \E k \in 1 .. Len(subgraphs[dev]) :
        /\ subgraphs[dev][k].kind = "op"
        /\ subgraphs[dev][k].value = v

ValueExistsIn(v, dev) ==
    \E k \in 1 .. Len(subgraphs[dev]) :
        /\ subgraphs[dev][k].kind \in {"op", "recv"}
        /\ subgraphs[dev][k].value = v

RECURSIVE PairSeq(_)
\* The <<destination, value>> pairs in traversal order: destinations in
\* enumeration order, operands in source order.
PairSeq(pairs) ==
    IF pairs = {}
    THEN <<>>
    ELSE LET m == CHOOSE x \in pairs :
                     \A y \in pairs : x[1] < y[1] \/ (x[1] = y[1] /\ x[2] <= y[2])
         IN  <<m>> \o PairSeq(pairs \ {m})

\* The TransferId of the k-th transfer created from counter value `counter`.
TransferIdAtStale(counter, k) == counter

TransferIdAt(counter, k) == counter + (k - 1)

\* The transfers an operation with these operands needs when copied to `dests`.
NewTransfers(dests, operands) ==
    LET need == PairSeq({pair \in dests \X operands : ~ValueExistsIn(pair[2], pair[1])})
    IN  [k \in 1 .. Len(need) |->
            [id |-> TransferIdAt(nextTensorTransferId, k),
             value |-> need[k][2],
             from |-> srcFn[need[k][2]].device,
             to |-> need[k][1]]]

SendsFrom(transfers, dev) ==
    LET mine == SelectSeq(transfers, LAMBDA t : t.from = dev)
    IN  [k \in 1 .. Len(mine) |->
            [kind |-> "send", value |-> mine[k].value, id |-> mine[k].id, to |-> mine[k].to]]

RecvsAt(transfers, dev) ==
    LET mine == SelectSeq(transfers, LAMBDA t : t.to = dev)
    IN  [k \in 1 .. Len(mine) |->
            [kind |-> "recv", value |-> mine[k].value, id |-> mine[k].id, from |-> mine[k].from]]

\* extractFunctionForDevice(deviceType): the subgraph of a used device.
extractFunctionForDevice(dev) ==
    IF dev \in DOMAIN subgraphs THEN Return(subgraphs[dev]) ELSE llvm_unreachable

\* The TransferIds of the sends of the current session.
SendIds ==
    UNION {{subgraphs[d][k].id :
               k \in {j \in 1 .. Len(subgraphs[d]) : subgraphs[d][j].kind = "send"}} :
           d \in DOMAIN subgraphs}

PartitionInit ==
    /\ pc = "run"
    /\ lastCall = NoCall
    /\ primaryDeviceType = INVALID
    /\ usedDeviceTypes = NoSnapshot.usedDeviceTypes
    /\ numUsedDeviceTypes = 0
    /\ marked = {}
    /\ before = NoSnapshot
    /\ CatalogIdle
    /\ LoopIdle
    /\ PartitionerIdle

\* DevicePartitioner(srcFn, deviceInfo, nextTensorTransferId), deviceInfo being the
\* tracker of srcFn: constructed with `primary`, then marked by the placement of
\* operations on the kinds of `placed`.
NewDevicePartitioner(primary, placed) ==
    /\ pc = "run"
    /\ session = "idle"
    /\ nextTensorTransferId < MaxTransferId
    /\ LET made == GraphFunctionDeviceInfo(primary)
           info == IF made.fatal THEN made ELSE markAll(made, placed)
       IN  /\ ~info.fatal
           /\ primaryDeviceType' = primary
           /\ usedDeviceTypes' = info.usedDeviceTypes
           /\ numUsedDeviceTypes' = info.numUsedDeviceTypes
           /\ subgraphs' = [d \in SeqRange(getUsedDeviceTypes(info.usedDeviceTypes)) |-> <<>>]
    /\ session' = "active"
    /\ srcFn' = <<>>
    /\ startId' = nextTensorTransferId
    /\ lastCall' = [op |-> "DevicePartitioner", arg |-> <<primary>>]
    /\ UNCHANGED <<pc, nextTensorTransferId, retiredIds, histVars, loopVars, catVars>>

\* The traversal reaches the next operation of srcFn, placed on `dev`.
VisitOp(dev, operands) ==
    /\ pc = "run"
    /\ session = "active"
    /\ Len(srcFn) < MaxOps
    /\ dev \in DOMAIN subgraphs \cup {ALL}
    /\ operands \subseteq 1 .. Len(srcFn)
    /\ \E transfers \in {NewTransfers(Destinations(dev), operands)} :
          LET copy == [kind |-> "op", value |-> Len(srcFn) + 1, args |-> operands]
          IN  /\ nextTensorTransferId + Len(transfers) <= MaxTransferId
              /\ nextTensorTransferId' = nextTensorTransferId + Len(transfers)
              /\ subgraphs' =
                    [d \in DOMAIN subgraphs |->
                        subgraphs[d] \o SendsFrom(transfers, d) \o RecvsAt(transfers, d)
                            \o (IF d \in Destinations(dev) THEN <<copy>> ELSE <<>>)]
    /\ srcFn' = Append(srcFn, [device |-> dev, operands |-> operands])
    /\ UNCHANGED <<pc, lastCall, session, startId, retiredIds, infoVars, histVars, loopVars, catVars>>

\* ~DevicePartitioner(): the subgraphs now belong to the caller.
DestroyDevicePartitioner ==
    /\ pc = "run"
    /\ session = "active"
    /\ session' = "idle"
    /\ retiredIds' = retiredIds \cup SendIds
    /\ srcFn' = <<>>
    /\ subgraphs' = <<>>
    /\ startId' = nextTensorTransferId
    /\ lastCall' = [op |-> "~DevicePartitioner", arg |-> <<>>]
    /\ UNCHANGED <<pc, nextTensorTransferId, infoVars, histVars, loopVars, catVars>>

PartitionNext ==
    \/ \E primary \in DeviceType, placed \in SUBSET ValidKinds :
          NewDevicePartitioner(primary, placed)
    \/ \E dev \in DeviceType, operands \in SUBSET (1 .. Len(srcFn)) : VisitOp(dev, operands)
    \/ DestroyDevicePartitioner

PartitionSpec == PartitionInit /\ [][PartitionNext]_vars

(***************************************************************************)
(* Properties of the catalog (under CatalogSpec)                           *)
(***************************************************************************)
CanonicalStrings == {DEFAULT_CPU_DEVICE, DEFAULT_GPU_DEVICE, DEFAULT_TPU_DEVICE, ALL_DEVICES}

\* C1: whenever getOpDeviceType is applied to the string getDeviceString produced
\* from a kind k in {CPU, GPU, TPU, ALL}, it returns k; hence the identifiers of
\* two different kinds differ.
RoundTrip ==
    /\ (lastCall.op = "getOpDeviceType" /\ origin # <<>>) =>
          /\ origin[1] \in ValidKinds
          /\ ret = Return(origin[1])
          /\ deviceType = origin[1]
    /\ \A k1, k2 \in ValidKinds :
          k1 # k2 => getDeviceString(k1).value # getDeviceString(k2).value

RoundTripReached ==
    /\ lastCall.op = "getOpDeviceType"
    /\ origin = <<TPU>>
    /\ ret = Return(TPU)

\* C7: getOpDeviceType aborts on every string other than the four canonical
\* identifiers and returns one of CPU, GPU, TPU, ALL (never INVALID) on those;
\* getDeviceString and getDeviceShortName return a value for CPU, GPU, TPU, ALL
\* and abort for INVALID.
CatalogFailsOutsideDomain ==
    /\ lastCall.op = "getOpDeviceType" =>
          /\ (lastCall.arg[1] \notin CanonicalStrings) => (ret.fatal /\ pc = "fatal")
          /\ (lastCall.arg[1] \in CanonicalStrings) => ~ret.fatal
          /\ ~ret.fatal =>
                /\ ret.value[1] \in ValidKinds
                /\ getDeviceString(ret.value[1]) = Return(lastCall.arg[1])
    /\ lastCall.op \in {"getDeviceString", "getDeviceShortName"} =>
          /\ ret.fatal <=> (lastCall.arg[1] = INVALID)
          /\ ret.fatal => pc = "fatal"
          /\ ~ret.fatal => Len(ret.value) = 1

NearMatchRejected ==
    /\ lastCall.op = "getOpDeviceType"
    /\ lastCall.arg[1] = "CPU:0"
    /\ ret.fatal
    /\ pc = "fatal"

(***************************************************************************)
(* Properties of the tracker (under Spec)                                  *)
(***************************************************************************)
RECURSIVE Ascending(_)
Ascending(S) ==
    IF S = {}
    THEN <<>>
    ELSE LET m == CHOOSE x \in S : \A y \in S : x <= y
         IN  <<m>> \o Ascending(S \ {m})

Range(seq) == {seq[i] : i \in 1 .. Len(seq)}

\* C2: a loop over getUsedDeviceTypes() that ran from begin() to end(), with no
\* markDeviceUsed call since it began, has visited exactly the kinds passed to
\* markDeviceUsed so far together with the primary device, ALL left out, each once
\* in ascending order, and has visited neither ALL nor INVALID.
EnumerationYieldsMarkedAndPrimary ==
    (loop = "end" /\ ~dirty) =>
        /\ visited = Ascending((marked \cup {primaryDeviceType}) \ {ALL})
        /\ ALL \notin Range(visited)
        /\ INVALID \notin Range(visited)

\* C3: the primary device's entry is set, numUsedDeviceTypes is the number of set
\* entries, and it is 1 right after the constructor.
CountMatchesIndicators ==
    /\ usedDeviceTypes[primaryDeviceType]
    /\ numUsedDeviceTypes = Cardinality({i \in DeviceIndex : usedDeviceTypes[i]})
    /\ lastCall.op = "GraphFunctionDeviceInfo" => numUsedDeviceTypes = 1

ThreeDevicesCounted ==
    /\ lastCall.op = "markDeviceUsed"
    /\ pc = "run"
    /\ numUsedDeviceTypes = 3
    /\ usedDeviceTypes[primaryDeviceType]

\* C4: the entries of ALL and of INVALID are never set.
AllAndInvalidNeverSet ==
    /\ ~usedDeviceTypes[ALL]
    /\ ~usedDeviceTypes[INVALID]

\* C5: a markDeviceUsed(kind) call that returns has changed nothing when kind is
\* ALL or was already marked; otherwise it has set that kind's entry only and
\* raised numUsedDeviceTypes by one. A second call with the same kind changes
\* nothing, no entry is cleared and the count does not decrease.
MarkDeviceUsedEffect ==
    (lastCall.op = "markDeviceUsed" /\ pc = "run") =>
        LET kind == lastCall.arg[1]
            again == markDeviceUsed(usedDeviceTypes, numUsedDeviceTypes, kind)
        IN  /\ IF kind = ALL \/ before.usedDeviceTypes[kind]
               THEN /\ usedDeviceTypes = before.usedDeviceTypes
                    /\ numUsedDeviceTypes = before.numUsedDeviceTypes
               ELSE /\ usedDeviceTypes = [before.usedDeviceTypes EXCEPT ![kind] = TRUE]
                    /\ numUsedDeviceTypes = before.numUsedDeviceTypes + 1
            /\ again.usedDeviceTypes = usedDeviceTypes
            /\ again.numUsedDeviceTypes = numUsedDeviceTypes
            /\ \A i \in DeviceIndex : before.usedDeviceTypes[i] => usedDeviceTypes[i]
            /\ numUsedDeviceTypes >= before.numUsedDeviceTypes

FreshKindMarked ==
    /\ lastCall.op = "markDeviceUsed"
    /\ pc = "run"
    /\ lastCall.arg[1] = GPU
    /\ ~before.usedDeviceTypes[GPU]
    /\ usedDeviceTypes[GPU]
    /\ numUsedDeviceTypes = before.numUsedDeviceTypes + 1

\* C6: markDeviceUsed(INVALID) aborts and leaves usedDeviceTypes and
\* numUsedDeviceTypes as they were; no markDeviceUsed call that returns was
\* passed INVALID, and INVALID's entry is set only if the constructor set it.
MarkInvalidFails ==
    /\ (lastCall.op = "markDeviceUsed" /\ lastCall.arg[1] = INVALID) =>
          /\ pc = "fatal"
          /\ usedDeviceTypes = before.usedDeviceTypes
          /\ numUsedDeviceTypes = before.numUsedDeviceTypes
    /\ INVALID \notin marked
    /\ usedDeviceTypes[INVALID] => primaryDeviceType = INVALID

MarkInvalidAborted ==
    /\ lastCall.op = "markDeviceUsed"
    /\ lastCall.arg[1] = INVALID
    /\ pc = "fatal"
    /\ ~usedDeviceTypes[INVALID]

(***************************************************************************)
(* Properties of the partitioner (under PartitionSpec)                     *)
(***************************************************************************)
\* The places <<device, position>> of the entries of one kind in the subgraphs.
Places(kind) ==
    UNION {{<<d, k>> : k \in {j \in 1 .. Len(subgraphs[d]) : subgraphs[d][j].kind = kind}} :
           d \in DOMAIN subgraphs}

EntryAt(place) == subgraphs[place[1]][place[2]]

\* The send a receive is paired with: same TransferId, in another device's subgraph.
SendsOf(recv) ==
    {s \in Places("send") : EntryAt(s).id = EntryAt(recv).id /\ s[1] # recv[1]}

RecvsOf(send) ==
    {r \in Places("recv") : EntryAt(r).id = EntryAt(send).id /\ r[1] # send[1]}

TransfersPaired ==
    /\ \A s1, s2 \in Places("send") : s1 # s2 => EntryAt(s1).id # EntryAt(s2).id
    /\ \A s \in Places("send") :
          /\ EntryAt(s).id \notin retiredIds
          /\ EntryAt(s).id < nextTensorTransferId
          /\ RecvsOf(s) # {}
    /\ \A r \in Places("recv") :
          /\ Cardinality({s \in Places("send") : EntryAt(s).id = EntryAt(r).id}) = 1
          /\ Cardinality(SendsOf(r)) = 1
          /\ \A s \in SendsOf(r) :
                /\ EntryAt(s).value = EntryAt(r).value
                /\ EntryAt(s).to = r[1]
                /\ EntryAt(r).from = s[1]
    /\ \A id \in retiredIds : id < nextTensorTransferId

\* C8: in every session, no two sends carry the same TransferId and none carries
\* the TransferId of a send of an earlier session; every receive carries the
\* TransferId of exactly one send, which is in another device's subgraph; every
\* send has such a receive; and nextTensorTransferId never decreases.
TransferIdsUniqueAndPaired ==
    /\ []TransfersPaired
    /\ [][nextTensorTransferId' >= nextTensorTransferId]_vars

SecondSessionTransfers ==
    /\ session = "active"
    /\ retiredIds # {}
    /\ Places("send") # {}
    /\ Places("recv") # {}

\* The operations copied into dev's subgraph that consume value v.
ConsumersIn(v, dev) ==
    {k \in 1 .. Len(subgraphs[dev]) :
        subgraphs[dev][k].kind = "op" /\ v \in subgraphs[dev][k].args}

RecvsIn(v, dev) ==
    {k \in 1 .. Len(subgraphs[dev]) :
        subgraphs[dev][k].kind = "recv" /\ subgraphs[dev][k].value = v}

\* The <<value, destination>> pair a receive, or a send, is for.
RecvPair(recv) == <<EntryAt(recv).value, recv[1]>>
SendPair(send) == <<EntryAt(send).value, EntryAt(send).to>>

\* C9: within a session, for every value v and device d there is at most one
\* receive of v in d's subgraph and at most one send of v to d, however many
\* operations of d consume v, and the counter has advanced by exactly one per
\* transferred pair.
TransferDeduplicated ==
    \A sends \in {Places("send")}, recvs \in {Places("recv")} :
        /\ \A r1, r2 \in recvs : r1 # r2 => RecvPair(r1) # RecvPair(r2)
        /\ \A s1, s2 \in sends : s1 # s2 => SendPair(s1) # SendPair(s2)
        /\ {RecvPair(r) : r \in recvs} = {SendPair(s) : s \in sends}
        /\ session = "active" =>
              nextTensorTransferId - startId = Cardinality({RecvPair(r) : r \in recvs})

TwoConsumersOneTransfer ==
    \E v \in 1 .. Len(srcFn), d \in DOMAIN subgraphs :
        /\ srcFn[v].device \notin {d, ALL}
        /\ Cardinality(ConsumersIn(v, d)) >= 2
        /\ Cardinality(RecvsIn(v, d)) = 1
        /\ nextTensorTransferId - startId = 1

\* The devices in use: the kinds other than INVALID and ALL whose entry is set.
UsedKinds == {d \in {CPU, GPU, TPU} : usedDeviceTypes[d]}

OpsOn(placement) == {i \in 1 .. Len(srcFn) : srcFn[i].device \in placement}

\* The copies of source operation i in dev's extracted function.
CopiesIn(i, dev) ==
    LET fn == extractFunctionForDevice(dev).value[1]
    IN  {k \in 1 .. Len(fn) : fn[k].kind = "op" /\ fn[k].value = i}

RECURSIVE Sum(_, _)
Sum(f, S) ==
    IF S = {}
    THEN 0
    ELSE LET x == CHOOSE y \in S : TRUE
         IN  f[x] + Sum(f, S \ {x})

\* The number of non-transfer operations across all extracted functions.
TotalOps ==
    Sum([d \in UsedKinds |->
            LET fn == extractFunctionForDevice(d).value[1]
            IN  Cardinality({k \in 1 .. Len(fn) : fn[k].kind = "op"})],
        UsedKinds)

====
